---- MODULE Spec2Model ----
(***************************************************************************)
(* Model of the automated video shorts bot (src/bot.py).                   *)
(*                                                                         *)
(* One invocation of main() constructs an AutomatedVideoShortsBot and      *)
(* calls run_scheduled_upload(): select a URL, download it, probe its      *)
(* duration, cut a 60 second vertical clip, upload the clip with retries,  *)
(* delete the working files.  The scheduler invokes the process again      *)
(* later; invocations are sequential and never overlap.                    *)
(*                                                                         *)
(* The environment (HTTP server of the source, ffprobe, ffmpeg, the       *)
(* destination's Graph API) is a nondeterministic choice of outcomes.      *)
(* A poll may first run src/generate_video_list.py, which lists the Drive   *)
(* folder and writes video_list.txt for the bot (specification PollSpec).  *)
(* Lines 38-39 of src/bot.py are indented by 11 columns instead of 12, so   *)
(* the file as shipped does not compile: `python3 bot.py` ends with an     *)
(* IndentationError and exit status 1 before main() is entered (build =    *)
(* "shipped", action ImportFails).  With the two lines re-indented as the  *)
(* body of `if urls_env:` the file runs (build = "repaired"), and every    *)
(* other action models that reading.                                       *)
(***************************************************************************)
EXTENDS Integers, Sequences, FiniteSets, TLC

\* ------------------------------------------------------------ bounds
\* Number of entries of the configured URL list (VIDEO_URLS / video_list.txt).
MaxCatalog == 2
\* Number of sequential invocations of the process.
MaxRuns == 2
\* Source durations up to Window + MaxExtra seconds are enumerated.
MaxExtra == 2

\* ------------------------------------------------- program constants
\* upload_to_facebook: max_retries = 3
max_retries == 3
\* upload_to_facebook: time.sleep(10)
RetryDelay == 10
\* download_video: os.path.getsize(temp_file) < 1000
MinBytes == 1000
\* create_and_upload_short: total_duration < 60, create_vertical_short(.., 60)
Window == 60

\* ------------------------------------------------------- value sets
None == "None"
Urls == {"A", "B"}
\* Entries of the configured list before stripping: URLs, a URL with
\* surrounding blanks, and a blank entry.
Tokens == Urls \cup {" A ", ""}
Sizes == {0, MinBytes - 1, MinBytes, MinBytes + 1}
DurationValues == {0, 45} \cup ((Window - 1)..(Window + MaxExtra))
InputFile == "input"
ShortFile == "short"

RECURSIVE SeqsUpTo(_, _)
SeqsUpTo(S, n) ==
    IF n = 0 THEN {<< >>}
    ELSE LET shorter == SeqsUpTo(S, n - 1)
         IN  shorter \cup {Append(s, x) : s \in {t \in shorter : Len(t) = n - 1}, x \in S}

Range(s) == {s[i] : i \in 1..Len(s)}

VARIABLES
    pc,               \* position of the process
    runs,             \* invocations completed so far
    urls_env,         \* the configured list, as written (fixed over the runs)
    creds,            \* FACEBOOK_PAGE_TOKEN and FACEBOOK_PAGE_ID are both set
    video_urls,       \* self.video_urls
    temp_dirs,        \* temp directories on disk that bot processes created
    files,            \* files in self.temp_dir
    selected_url,     \* run_scheduled_upload: selected_url
    download,         \* what the download did: [done, raised, size]
    input_video,      \* create_and_upload_short: input_video
    probe_calls,      \* invocations of ffprobe in this run
    total_duration,   \* create_and_upload_short: total_duration, [ok, value]
    transcode,        \* what ffmpeg did: [calls, rc, wrote, start_time]
    short_file,       \* create_and_upload_short: short_file
    attempts,         \* upload_to_facebook: one record per attempt made
    video_id,         \* upload_to_facebook's return value
    success,          \* create_and_upload_short's return value
    published,        \* videos the destination published during this run
    relayed,          \* selected_url of every run that reported success
    folder_id,        \* GDRIVE_FOLDER_ID is set
    poll,             \* generate_video_list.main in this poll: [gen, listed]
    video_list,       \* video_list.txt: [exists, lines]
    build             \* bot.py as shipped, or with lines 38-39 re-indented

vars == << pc, runs, urls_env, creds, video_urls, temp_dirs, files, selected_url,
           download, input_video, probe_calls, total_duration, transcode,
           short_file, attempts, video_id, success, published, relayed,
           folder_id, poll, video_list, build >>

genvars == << folder_id, poll, video_list >>

\* ------------------------------------------------- load_video_urls
Strip(t) ==
    CASE t = " A " -> "A"
      [] t = "A\n" -> "A"
      [] t = "B\n" -> "B"
      [] OTHER -> t

\* [url.strip() for url in ... if url.strip()]
load_video_urls(raw) ==
    LET kept == SelectSeq(raw, LAMBDA t : Strip(t) # "")
    IN  [i \in 1..Len(kept) |-> Strip(kept[i])]

\* urls_env = os.getenv('VIDEO_URLS'); if urls_env: the variable is unset
\* (<< >>) or the empty string (whose split is the one entry "").
EnvIsSet == urls_env # << >> /\ urls_env # << "" >>

\* What load_video_urls reads: VIDEO_URLS when it is set and not empty, else
\* the lines of video_list.txt when the file exists, else nothing.
UrlSource ==
    IF EnvIsSet THEN urls_env
    ELSE IF video_list.exists THEN video_list.lines
    ELSE << >>

\* random.choice(self.video_urls)
RandomChoice(urls) == Range(urls)

\* ---------------------------------------------------- download_video
\* The size check with <= in place of <.
TooSmall_Inclusive(size) == size <= MinBytes

\* os.path.getsize(temp_file) < 1000
TooSmall(size) == size < MinBytes

\* ------------------------------------------ create_and_upload_short
NoDuration == [ok |-> FALSE, value |-> 0]
\* The duration check off by one second.
DurationRejected_OffByOne(d) == (~d.ok) \/ d.value = 0 \/ d.value < Window - 1

\* not total_duration or total_duration < 60
DurationRejected(d) == (~d.ok) \/ d.value = 0 \/ d.value < Window

\* random.uniform(0, max_start_time): a + (b - a) * random()
RandomUniform(b) == IF b >= 0 THEN 0..b ELSE b..0

\* cleanup_file: os.remove when the path exists
cleanup_file(fs, f) == fs \ {f}

\* The result taken to be True whatever upload_to_facebook returned.
UploadResult_Always(vid) == TRUE

\* return video_id is not None
UploadResult(vid) == vid # None

\* ---------------------------------------------- create_vertical_short
\* if result.returncode == 0: return output_file
TranscodeResult(rc, wrote) == IF rc = 0 THEN ShortFile ELSE None

\* ------------------------------------------------ upload_to_facebook
\* The loop making one attempt more: range(max_retries + 1).
AttemptRange_OneMore == 0..max_retries

\* for attempt in range(max_retries)
AttemptRange == 0..(max_retries - 1)

Outcomes == {"nofile", "timeout", "5xx", "4xx", "noid", "ok"}
\* outcomes that reach `except Exception`
IsException(o) == o \in {"nofile", "timeout", "5xx", "4xx"}
\* the failures the retry policy calls transient
Transient == {"timeout", "5xx"}

\* except Exception: if attempt < max_retries - 1: time.sleep(10)
SleepAfter(attempt, o) ==
    IF IsException(o) /\ attempt < max_retries - 1 THEN RetryDelay ELSE 0

\* ------------------------------------------------- cleanup_temp_dir
\* cleanup_temp_dir leaving the directory's files in place.
RmTree_Skipped(fs) == fs

\* shutil.rmtree(self.temp_dir)
RmTree(fs) == {}

\* ------------------------------------------- generate_video_list.py
\* Ids of the video files the Drive folder can hold.
FolderIds == {"a", "b"}
\* f"https://drive.google.com/uc?export=download&id={file['id']}"
DriveUrl(id) == CASE id = "a" -> "A" [] id = "b" -> "B"
\* the line written for a file: its URL and a newline
DriveLine(id) == CASE id = "a" -> "A\n" [] id = "b" -> "B\n"
\* The orders in which the listing can return the files of S.
Listings(S) ==
    {q \in SeqsUpTo(S, Cardinality(S)) : Len(q) = Cardinality(S) /\ Range(q) = S}

NoFile == [exists |-> FALSE, lines |-> << >>]
NoPoll == [gen |-> "idle", listed |-> {}]

\* ---------------------------------------------------------------- Init
NoDownload == [done |-> FALSE, raised |-> FALSE, size |-> 0]
NoTranscode == [calls |-> 0, rc |-> 0, wrote |-> FALSE, start_time |-> 0]

RunLocalsReset ==
    /\ video_urls' = << >>
    /\ files' = {}
    /\ selected_url' = None
    /\ download' = NoDownload
    /\ input_video' = None
    /\ probe_calls' = 0
    /\ total_duration' = NoDuration
    /\ transcode' = NoTranscode
    /\ short_file' = None
    /\ attempts' = << >>
    /\ video_id' = None
    /\ success' = None
    /\ published' = 0

Init ==
    /\ pc = "main"
    /\ runs = 0
    /\ urls_env \in SeqsUpTo(Tokens, MaxCatalog)
    /\ creds \in BOOLEAN
    /\ video_urls = << >>
    /\ temp_dirs = 0
    /\ files = {}
    /\ selected_url = None
    /\ download = NoDownload
    /\ input_video = None
    /\ probe_calls = 0
    /\ total_duration = NoDuration
    /\ transcode = NoTranscode
    /\ short_file = None
    /\ attempts = << >>
    /\ video_id = None
    /\ success = None
    /\ published = 0
    /\ relayed = << >>
    /\ folder_id = TRUE
    /\ poll = NoPoll
    /\ video_list = NoFile
    /\ build \in {"shipped", "repaired"}

\* ------------------------------------------------------------- actions
\* python3 bot.py on the file as shipped: compiling it raises IndentationError
\* at line 38; the process ends with exit status 1, main() is never entered,
\* nothing is loaded and no temp directory is made.
ImportFails ==
    /\ pc = "main"
    /\ build = "shipped"
    /\ pc' = "crashed"
    /\ runs' = runs + 1
    /\ UNCHANGED << urls_env, creds, video_urls, temp_dirs, files, selected_url,
                    download, input_video, probe_calls, total_duration, transcode,
                    short_file, attempts, video_id, success, published, relayed >>
    /\ UNCHANGED genvars
    /\ UNCHANGED build

\* main: bot = AutomatedVideoShortsBot(); __init__ loads the URLs, makes the
\* temp directory and only then validates the credentials.
Construct ==
    /\ pc = "main"
    /\ build = "repaired"
    /\ video_urls' = load_video_urls(UrlSource)
    /\ temp_dirs' = temp_dirs + 1
    /\ pc' = IF creds THEN "run" ELSE "fatal"
    /\ UNCHANGED << runs, urls_env, creds, files, selected_url, download,
                    input_video, probe_calls, total_duration, transcode,
                    short_file, attempts, video_id, success, published, relayed >>
    /\ UNCHANGED genvars
    /\ UNCHANGED build

\* run_scheduled_upload up to the call of create_and_upload_short.
SelectVideo ==
    /\ pc = "run"
    /\ IF video_urls = << >>
       THEN /\ pc' = "finally"
            /\ UNCHANGED selected_url
       ELSE /\ \E u \in RandomChoice(video_urls) : selected_url' = u
            /\ pc' = "download"
    /\ UNCHANGED << runs, urls_env, creds, video_urls, temp_dirs, files, download,
                    input_video, probe_calls, total_duration, transcode,
                    short_file, attempts, video_id, success, published, relayed >>
    /\ UNCHANGED genvars
    /\ UNCHANGED build

\* download_video and the caller's `if not input_video`.  The request or the
\* streaming may raise, before or after the file was created.
DownloadVideo ==
    /\ pc = "download"
    /\ \E raised \in BOOLEAN, wrote \in BOOLEAN, size \in Sizes :
         /\ (~raised) => wrote
         /\ (~wrote) => size = 0
         /\ download' = [done |-> TRUE, raised |-> raised, size |-> size]
         /\ files' = IF wrote THEN files \cup {InputFile} ELSE files
         /\ input_video' = IF raised \/ TooSmall(size) THEN None ELSE InputFile
    /\ IF input_video' = None
       THEN /\ success' = "False"
            /\ pc' = "finally"
       ELSE /\ pc' = "probe"
            /\ UNCHANGED success
    /\ UNCHANGED << runs, urls_env, creds, video_urls, temp_dirs, selected_url,
                    probe_calls, total_duration, transcode, short_file, attempts,
                    video_id, published, relayed >>
    /\ UNCHANGED genvars
    /\ UNCHANGED build

\* get_video_duration and the caller's duration check.
GetVideoDuration ==
    /\ pc = "probe"
    /\ probe_calls' = probe_calls + 1
    /\ \E d \in {NoDuration} \cup {[ok |-> TRUE, value |-> v] : v \in DurationValues} :
         total_duration' = d
    /\ IF DurationRejected(total_duration')
       THEN /\ files' = cleanup_file(files, input_video)
            /\ success' = "False"
            /\ pc' = "finally"
       ELSE /\ pc' = "transform"
            /\ UNCHANGED << files, success >>
    /\ UNCHANGED << runs, urls_env, creds, video_urls, temp_dirs, selected_url,
                    download, input_video, transcode, short_file, attempts,
                    video_id, published, relayed >>
    /\ UNCHANGED genvars
    /\ UNCHANGED build

\* The random start, create_vertical_short and the caller's `if not short_file`.
\* rc 2 stands for subprocess.run raising (timeout), which returns None as well.
CreateVerticalShort ==
    /\ pc = "transform"
    /\ \E s \in RandomUniform(total_duration.value - Window),
          rc \in {0, 1, 2}, wrote \in BOOLEAN :
         /\ transcode' = [calls |-> transcode.calls + 1, rc |-> rc,
                          wrote |-> wrote, start_time |-> s]
         /\ short_file' = TranscodeResult(rc, wrote)
         /\ IF short_file' = None
            THEN /\ files' = cleanup_file(
                                IF wrote THEN files \cup {ShortFile} ELSE files,
                                input_video)
                 /\ success' = "False"
                 /\ pc' = "finally"
            ELSE /\ files' = IF wrote THEN files \cup {ShortFile} ELSE files
                 /\ pc' = "describe"
                 /\ UNCHANGED success
    /\ UNCHANGED << runs, urls_env, creds, video_urls, temp_dirs, selected_url,
                    download, input_video, probe_calls, total_duration, attempts,
                    video_id, published, relayed >>
    /\ UNCHANGED genvars
    /\ UNCHANGED build

\* Building the description; an exception escaping here (a MemoryError, say)
\* is caught by create_and_upload_short's `except Exception` and gives False,
\* with both working files still on disk.
Describe ==
    /\ pc = "describe"
    /\ \E raised \in BOOLEAN :
         IF raised
         THEN /\ success' = "False"
              /\ pc' = "finally"
         ELSE /\ pc' = "upload"
              /\ UNCHANGED success
    /\ UNCHANGED << runs, urls_env, creds, video_urls, temp_dirs, files,
                    selected_url, download, input_video, probe_calls,
                    total_duration, transcode, short_file, attempts, video_id,
                    published, relayed >>
    /\ UNCHANGED genvars
    /\ UNCHANGED build

\* One pass of upload_to_facebook's loop.  A request the client sees fail by
\* timeout, or answered without an id, may have been accepted by the destination.
UploadAttempt ==
    /\ pc = "upload"
    /\ Len(attempts) \in AttemptRange
    /\ \E o \in Outcomes, accepted \in BOOLEAN :
         /\ (o = "nofile") <=> (short_file \notin files)
         /\ o \in {"nofile", "5xx", "4xx"} => ~accepted
         /\ o = "ok" => accepted
         /\ attempts' = Append(attempts,
                [outcome |-> o, accepted |-> accepted,
                 delay |-> SleepAfter(Len(attempts), o)])
         /\ published' = IF accepted THEN published + 1 ELSE published
         /\ video_id' = IF o = "ok" THEN "id" ELSE None
         /\ pc' = IF o = "ok" \/ Len(attempts) + 1 \notin AttemptRange
                  THEN "uploaded" ELSE "upload"
    /\ UNCHANGED << runs, urls_env, creds, video_urls, temp_dirs, files,
                    selected_url, download, input_video, probe_calls,
                    total_duration, transcode, short_file, success, relayed >>
    /\ UNCHANGED genvars
    /\ UNCHANGED build

\* create_and_upload_short after the upload: cleanup of both files, result.
FinishShort ==
    /\ pc = "uploaded"
    /\ files' = cleanup_file(cleanup_file(files, input_video), short_file)
    /\ success' = IF UploadResult(video_id) THEN "True" ELSE "False"
    /\ pc' = "finally"
    /\ UNCHANGED << runs, urls_env, creds, video_urls, temp_dirs, selected_url,
                    download, input_video, probe_calls, total_duration, transcode,
                    short_file, attempts, video_id, published, relayed >>
    /\ UNCHANGED genvars
    /\ UNCHANGED build

\* run_scheduled_upload's report and its finally: cleanup_temp_dir removes the
\* temp directory and makes a new one.
FinishRun ==
    /\ pc = "finally"
    /\ files' = RmTree(files)
    /\ temp_dirs' = (temp_dirs - 1) + 1
    /\ relayed' = IF success = "True" THEN Append(relayed, selected_url) ELSE relayed
    /\ runs' = runs + 1
    /\ pc' = "returned"
    /\ UNCHANGED << urls_env, creds, video_urls, selected_url, download,
                    input_video, probe_calls, total_duration, transcode,
                    short_file, attempts, video_id, success, published >>
    /\ UNCHANGED genvars
    /\ UNCHANGED build

\* main's `except Exception`: the constructor raised, the process ends.
FatalExit ==
    /\ pc = "fatal"
    /\ runs' = runs + 1
    /\ pc' = "exit"
    /\ UNCHANGED << urls_env, creds, video_urls, temp_dirs, files, selected_url,
                    download, input_video, probe_calls, total_duration, transcode,
                    short_file, attempts, video_id, success, published, relayed >>
    /\ UNCHANGED genvars
    /\ UNCHANGED build

\* The scheduler starts the next poll; nothing in memory survives, and the
\* working directory either keeps video_list.txt or is a fresh one.
NextInvocation ==
    /\ pc \in {"returned", "exit", "crashed"}
    /\ runs < MaxRuns
    /\ pc' = "main"
    /\ RunLocalsReset
    /\ poll' = NoPoll
    /\ video_list' \in {video_list, NoFile}
    /\ UNCHANGED << runs, urls_env, creds, temp_dirs, relayed, folder_id, build >>

botvars == << runs, urls_env, creds, video_urls, temp_dirs, files, selected_url,
              download, input_video, probe_calls, total_duration, transcode,
              short_file, attempts, video_id, success, published, relayed >>

\* generate_video_list.main, run before the bot in a poll.  A missing
\* GDRIVE_FOLDER_ID raises ValueError; the credentials file or the listing
\* request may raise; nothing catches either.  An empty listing returns
\* before video_list.txt is opened for writing.
GenerateVideoList ==
    /\ pc = "main"
    /\ poll.gen = "idle"
    /\ IF ~folder_id
       THEN /\ poll' = [gen |-> "crashed", listed |-> {}]
            /\ UNCHANGED video_list
       ELSE \E raised \in BOOLEAN, S \in SUBSET FolderIds :
              IF raised
              THEN /\ S = {}
                   /\ poll' = [gen |-> "crashed", listed |-> {}]
                   /\ UNCHANGED video_list
              ELSE IF S = {}
              THEN /\ poll' = [gen |-> "empty", listed |-> S]
                   /\ UNCHANGED video_list
              ELSE /\ poll' = [gen |-> "written", listed |-> S]
                   /\ \E q \in Listings(S) :
                        video_list' = [exists |-> TRUE,
                                       lines |-> [i \in 1..Len(q) |-> DriveLine(q[i])]]
    /\ UNCHANGED << pc, folder_id, build >>
    /\ UNCHANGED botvars

\* The generator's process ended with a traceback and the poll stops there,
\* the bot is not started.
GeneratorAbort ==
    /\ pc = "main"
    /\ poll.gen = "crashed"
    /\ pc' = "exit"
    /\ runs' = runs + 1
    /\ UNCHANGED << urls_env, creds, video_urls, temp_dirs, files, selected_url,
                    download, input_video, probe_calls, total_duration, transcode,
                    short_file, attempts, video_id, success, published, relayed >>
    /\ UNCHANGED genvars
    /\ UNCHANGED build

Next ==
    \/ ImportFails
    \/ Construct
    \/ SelectVideo
    \/ DownloadVideo
    \/ GetVideoDuration
    \/ CreateVerticalShort
    \/ Describe
    \/ UploadAttempt
    \/ FinishShort
    \/ FinishRun
    \/ FatalExit
    \/ NextInvocation

Spec == Init /\ [][Next]_vars

\* Polls of the Drive folder: VIDEO_URLS is unset or empty, the generator writes
\* video_list.txt and the bot reads it.
PollInit ==
    /\ pc = "main"
    /\ runs = 0
    /\ urls_env \in {<< >>, << "" >>}
    /\ creds \in BOOLEAN
    /\ video_urls = << >>
    /\ temp_dirs = 0
    /\ files = {}
    /\ selected_url = None
    /\ download = NoDownload
    /\ input_video = None
    /\ probe_calls = 0
    /\ total_duration = NoDuration
    /\ transcode = NoTranscode
    /\ short_file = None
    /\ attempts = << >>
    /\ video_id = None
    /\ success = None
    /\ published = 0
    /\ relayed = << >>
    /\ folder_id \in BOOLEAN
    /\ poll = NoPoll
    /\ video_list = NoFile
    /\ build \in {"shipped", "repaired"}

PollNext ==
    \/ Next
    \/ GenerateVideoList
    \/ GeneratorAbort

PollSpec == PollInit /\ [][PollNext]_vars

TypeOK ==
    /\ pc \in {"main", "run", "download", "probe", "transform", "describe",
               "upload", "uploaded", "finally", "returned", "fatal", "exit",
               "crashed"}
    /\ runs \in 0..MaxRuns
    /\ selected_url \in Urls \cup {None}
    /\ files \subseteq {InputFile, ShortFile}
    /\ success \in {None, "True", "False"}
    /\ Len(attempts) <= max_retries + 1

\* ------------------------------------------------------------- claims
\* upload_to_facebook has returned (its attempts are kept until the next run).
UploadReturned ==
    \/ pc = "uploaded"
    \/ (pc \in {"finally", "returned"} /\ attempts # << >>)

AllFailed == \A i \in 1..Len(attempts) : attempts[i].outcome # "ok"

\* C1 as stated: when the first max_retries attempts all fail transiently, a
\* terminal failure (None) is returned only after attempt max_retries + 1 was
\* made, never after only max_retries failed attempts.
C1_TerminalFailureAfterOneMoreAttempt ==
    (/\ UploadReturned
     /\ video_id = None
     /\ Len(attempts) >= max_retries
     /\ \A i \in 1..max_retries : attempts[i].outcome \in Transient)
        => Len(attempts) = max_retries + 1

\* C1 amended: upload_to_facebook makes at most max_retries attempts; it returns
\* a terminal failure (None) exactly after max_retries attempts that all failed,
\* with no further attempt.
C1_RetryBound ==
    /\ Len(attempts) <= max_retries
    /\ (UploadReturned /\ video_id = None) =>
           (Len(attempts) = max_retries /\ AllFailed)
    /\ (pc = "upload" /\ AllFailed) => Len(attempts) < max_retries

C1_Witness ==
    /\ pc = "uploaded"
    /\ video_id = None
    /\ Len(attempts) = max_retries
    /\ \A i \in 1..Len(attempts) : attempts[i].outcome \in Transient

\* C2 as stated: an attempt that fails non-transiently (a 4xx status, or the
\* clip file missing) is the last attempt: no further attempt follows it.
C2_NonTransientNotRetried ==
    \A i \in 1..Len(attempts) :
        attempts[i].outcome \in {"4xx", "nofile"} => i = Len(attempts)

\* C3 as stated: in every invocation the destination publishes at most one
\* video, and exactly one when the run reports success.
C3_PublishedAtMostOnce ==
    /\ published <= 1
    /\ success = "True" => published = 1

\* The items of the catalog no earlier run has relayed, oldest first.
Unrelayed == SelectSeq(video_urls, LAMBDA u : u \notin Range(relayed))

\* C4 as stated: the item a run selects is the oldest item no earlier run has
\* relayed, nothing is selected once every item was relayed, and no item is
\* relayed twice.
C4_OldestUnrelayedSelected ==
    /\ pc = "download" =>
           (Unrelayed # << >> /\ selected_url = Head(Unrelayed))
    /\ \A i, j \in 1..Len(relayed) : i # j => relayed[i] # relayed[j]

\* C5: a download that raises or is smaller than MinBytes gives None, and
\* create_and_upload_short returns False with no probe, no transcoder call and
\* no upload attempt; a download of MinBytes or more is accepted and probed.
C5_FetchCompleteness ==
    download.done =>
        /\ (download.raised \/ download.size < MinBytes) =>
               /\ input_video = None
               /\ success = "False"
               /\ probe_calls = 0
               /\ transcode.calls = 0
               /\ attempts = << >>
        /\ (~download.raised /\ download.size >= MinBytes) =>
               /\ input_video = InputFile
               /\ (pc = "probe" \/ probe_calls = 1)

C5_Witness ==
    /\ pc = "returned"
    /\ download.done
    /\ ~download.raised
    /\ download.size = MinBytes - 1
    /\ success = "False"

\* C6: with the duration unknown or below Window the transcoder is never
\* invoked and no clip exists; otherwise it is invoked exactly once, with a
\* start s such that 0 <= s <= duration - Window (s = 0 when they are equal).
C6_RandomWindow ==
    /\ transcode.calls <= 1
    /\ (probe_calls = 1 /\ (~total_duration.ok \/ total_duration.value < Window)) =>
           /\ transcode.calls = 0
           /\ ShortFile \notin files
           /\ short_file = None
           /\ success = "False"
    /\ (probe_calls = 1 /\ total_duration.ok /\ total_duration.value >= Window
            /\ pc # "transform") =>
           /\ transcode.calls = 1
           /\ 0 <= transcode.start_time
           /\ transcode.start_time <= total_duration.value - Window
           /\ total_duration.value = Window => transcode.start_time = 0

C6_Witness ==
    /\ pc = "returned"
    /\ total_duration = [ok |-> TRUE, value |-> Window + 1]
    /\ transcode.calls = 1
    /\ transcode.start_time = 1

\* C7 as stated: create_vertical_short returns a path only when the return
\* code is 0 and the output file exists; on any other outcome no upload
\* attempt is made.
C7_TransformSuccessCriterion ==
    transcode.calls = 1 =>
        /\ short_file # None => (transcode.rc = 0 /\ transcode.wrote)
        /\ ~(transcode.rc = 0 /\ transcode.wrote) => attempts = << >>

\* C8: when run_scheduled_upload has returned, no file the run created in its
\* temp directory exists.
C8_ArtifactsEphemeral ==
    pc = "returned" => files = {}

C8_Witness ==
    /\ pc = "returned"
    /\ download.done
    /\ transcode.calls = 1
    /\ transcode.rc = 1
    /\ transcode.wrote
    /\ files = {}

\* C9: create_and_upload_short returns True if and only if some upload attempt
\* of the run got a success status with a video id; otherwise False (or
\* nothing, when no URL was available).
C9_NoPartialSuccess ==
    pc \in {"finally", "returned"} =>
        /\ success = "True" <=>
               \E i \in 1..Len(attempts) : attempts[i].outcome = "ok"
        /\ success = None <=> selected_url = None
        /\ success = "True" =>
               (attempts[Len(attempts)].outcome = "ok" /\ video_id # None)

C9_Witness ==
    /\ pc = "returned"
    /\ success = "True"
    /\ Len(attempts) = 2
    /\ attempts[1].outcome = "timeout"
    /\ relayed # << >>

\* C10 as stated: every attempt that is followed by another attempt is
\* followed by the fixed delay, however it failed, and no delay follows the
\* last attempt.
C10_FixedInterAttemptDelay ==
    \A i \in 1..Len(attempts) :
        /\ i < Len(attempts) => attempts[i].delay = RetryDelay
        /\ (i = max_retries \/ attempts[i].outcome = "ok") => attempts[i].delay = 0

\* A fetch failure or a transform failure made create_and_upload_short return
\* False, and run_scheduled_upload's finally has not run yet.
AbortedByFetchOrTransform ==
    /\ pc = "finally"
    /\ success = "False"
    /\ \/ (download.done /\ input_video = None)
       \/ (transcode.calls = 1 /\ short_file = None)

\* C11 as stated: when create_and_upload_short returns False on a fetch failure
\* or a transform failure, the temporary download and any partial clip output
\* are already deleted.
C11_DeletedBeforeAbort ==
    AbortedByFetchOrTransform => files = {}

\* C14 as stated: when a bot process has ended, by the constructor's abort on
\* missing credentials or after cleanup_temp_dir, no temp directory that a bot
\* process created is left on disk.
C14_NoTempDirLeftBehind ==
    pc \in {"returned", "exit"} => temp_dirs = 0

\* C12 as stated: no expected failure (missing configuration, catalog listing
\* failure, fetch, transform or upload failure) ends an entry point's process
\* abnormally, and a listing failure leaves the bot with nothing to relay.
C12_NoAbnormalTermination ==
    /\ poll.gen # "crashed"
    /\ pc # "crashed"

\* C13 as stated: once generate_video_list.main has run and the bot has loaded
\* its URLs from video_list.txt, the bot's candidates are exactly the URLs of
\* the videos now in the folder; with no video in the folder it selects nothing.
C13_CandidatesAreTheFolder ==
    (poll.gen \in {"written", "empty"} /\ pc \notin {"main", "crashed"}) =>
        /\ Range(video_urls) = {DriveUrl(f) : f \in poll.listed}
        /\ poll.listed = {} => selected_url = None

====
